---- MODULE Spec2Model ----
(***************************************************************************)
(* Serverless Stripe backend: the webhook handler (api/stripe/webhook.js)  *)
(* and the create-payment-intent proxy (api/stripe/create-payment-intent). *)
(*                                                                         *)
(* A handler invocation is a JavaScript async function: the code between   *)
(* two awaits runs atomically, and other invocations may run at an await.  *)
(* Each action below is one such segment.                                  *)
(***************************************************************************)
EXTENDS Integers, Sequences, FiniteSets, TLC

\* ------------------------------------------------------------------ bounds
\* Deliveries the vendor makes to the webhook in one run.
MaxDeliveries == 2
\* Webhook invocations that may be in flight at once (SpecConc).
MaxInFlight == 2
\* Requests made to the create-payment-intent endpoint in one run.
MaxPayRequests == 2
\* create-payment-intent invocations that may be in flight at once.
MaxPayInFlight == 2
\* Milliseconds the clock may advance between two reads in one segment.
MaxClockAdvance == 1
\* Requests made to the customer-portal endpoint in one run.
MaxPortalRequests == 2
\* Requests made to the status endpoint in one run.
MaxStatusRequests == 2

\* --------------------------------------------------------------- constants
NoValue == "none"

\* An absent value and a present one, for values that are not strings.
None == << >>
Some(x) == << x >>

\* The event types the switch of the webhook handler has a case for.
RecognizedTypes ==
  { "payment_intent.succeeded", "payment_intent.payment_failed",
    "customer.subscription.created", "customer.subscription.updated",
    "customer.subscription.deleted", "invoice.payment_succeeded",
    "invoice.payment_failed" }

\* A type the vendor may send that the switch has no case for.
FutureTypes == { "charge.refunded" }

EventTypes == RecognizedTypes \cup FutureTypes

EventIds == { "evt_1", "evt_2" }

\* A switch whose default case falls into the last handler.
HandlerForFallthrough(type) ==
  CASE type = "payment_intent.succeeded"      -> "handlePaymentSuccess"
    [] type = "payment_intent.payment_failed" -> "handlePaymentFailed"
    [] type = "customer.subscription.created" -> "handleSubscriptionCreated"
    [] type = "customer.subscription.updated" -> "handleSubscriptionUpdated"
    [] type = "customer.subscription.deleted" -> "handleSubscriptionCancelled"
    [] type = "invoice.payment_succeeded"     -> "handleInvoicePayment"
    [] OTHER                                  -> "handleInvoicePaymentFailed"

\* A switch with the handlers of two subscription cases exchanged.
HandlerForSwapped(type) ==
  CASE type = "payment_intent.succeeded"      -> "handlePaymentSuccess"
    [] type = "payment_intent.payment_failed" -> "handlePaymentFailed"
    [] type = "customer.subscription.created" -> "handleSubscriptionUpdated"
    [] type = "customer.subscription.updated" -> "handleSubscriptionCreated"
    [] type = "customer.subscription.deleted" -> "handleSubscriptionCancelled"
    [] type = "invoice.payment_succeeded"     -> "handleInvoicePayment"
    [] type = "invoice.payment_failed"        -> "handleInvoicePaymentFailed"
    [] OTHER                                  -> "none"

\* The per-type handler the switch calls for a type.
HandlerFor(type) ==
  CASE type = "payment_intent.succeeded"      -> "handlePaymentSuccess"
    [] type = "payment_intent.payment_failed" -> "handlePaymentFailed"
    [] type = "customer.subscription.created" -> "handleSubscriptionCreated"
    [] type = "customer.subscription.updated" -> "handleSubscriptionUpdated"
    [] type = "customer.subscription.deleted" -> "handleSubscriptionCancelled"
    [] type = "invoice.payment_succeeded"     -> "handleInvoicePayment"
    [] type = "invoice.payment_failed"        -> "handleInvoicePaymentFailed"
    [] OTHER                                  -> NoValue

\* The per-type handlers that format timestamps of the object
\* (new Date(x * 1000).toISOString() throws a RangeError when x is missing).
TimestampHandlers == { "handleSubscriptionCreated", "handleSubscriptionCancelled" }

\* Shapes of event.data.object: its timestamp fields are numbers or are missing.
ObjectShapes(type) ==
  IF HandlerFor(type) \in TimestampHandlers THEN { "timestamps", "no_timestamps" }
  ELSE { "timestamps" }

\* The bytes of a request body: a JSON event envelope in one of two byte layouts.
Layouts == { "compact", "spaced" }

Bodies ==
  UNION { { [id |-> i, type |-> t, object |-> o, layout |-> l] :
              i \in EventIds, o \in ObjectShapes(t), l \in Layouts } :
          t \in EventTypes }

\* JSON.parse of the body: the event envelope, without the byte layout.
ParseBody(raw) == [id |-> raw.id, type |-> raw.type, object |-> raw.object]

\* JSON.stringify of a parsed envelope: always the compact layout.
Serialize(ev) ==
  [id |-> ev.id, type |-> ev.type, object |-> ev.object, layout |-> "compact"]

\* Signing secrets: the one of the endpoint and another one.
Secrets == { "whsec_live", "whsec_other" }

\* The vendor's signature of a body under a secret (an ideal MAC: equal
\* signatures come from equal bytes and equal secrets).
Sign(raw, secret) == [over |-> raw, key |-> secret]

\* Bodies that differ from raw in one place: another layout, another identifier.
Mutations(raw) ==
  { [raw EXCEPT !.layout = IF raw.layout = "compact" THEN "spaced" ELSE "compact"],
    [raw EXCEPT !.id = IF raw.id = "evt_1" THEN "evt_2" ELSE "evt_1"] }

\* The stripe-signature header values a request with this body may carry.
SignatureHeaders(raw) ==
  { None } \cup { Some(Sign(b, s)) : b \in { raw } \cup Mutations(raw), s \in Secrets }

Methods == { "POST", "GET" }

\* Every request that can reach the webhook endpoint.
Requests ==
  UNION { { [method |-> m, body |-> b, sig |-> s] :
              m \in Methods, s \in SignatureHeaders(b) } : b \in Bodies }

\* The deliveries the vendor makes: POST, signed with the endpoint's secret.
VendorRequests ==
  { [method |-> "POST", body |-> b, sig |-> Some(Sign(b, "whsec_live"))] : b \in Bodies }

Slots == 1 .. MaxInFlight

VARIABLES
  webhookSecret,  \* process.env.STRIPE_WEBHOOK_SECRET at module load
  dl,             \* per invocation slot: the request, position and response
  served,         \* deliveries started so far
  applied,        \* per event identifier: side-effect points reached
  acked,          \* per event identifier: 200 acknowledgements sent
  pay,            \* create-payment-intent: the request, position and response
  customers,      \* the vendor's customers, the most recent first
  payServed,      \* create-payment-intent requests started so far
  portal,         \* customer-portal: the request, position and response
  portalServed,   \* customer-portal requests started so far
  stat,           \* status: the request and response
  statServed      \* status requests started so far

whVars == << webhookSecret, dl, served, applied, acked >>
payVars == << pay, customers, payServed >>
portalVars == << portal, portalServed >>
statVars == << stat, statServed >>
vars ==
  << webhookSecret, dl, served, applied, acked, pay, customers, payServed,
     portal, portalServed, stat, statServed >>

\* An invocation slot with no request.
IdleSlot ==
  [ pc |-> "idle", req |-> None, bodyRead |-> FALSE, buf |-> None,
    verified |-> NoValue, event |-> None, invoked |-> << >>,
    caught |-> FALSE, status |-> 0, kind |-> NoValue, text |-> NoValue,
    eventType |-> NoValue, sent |-> 0 ]

\* res.status(code).end()
EndWith(r, code) ==
  [r EXCEPT !.pc = "done", !.status = code, !.kind = "empty", !.sent = @ + 1]

\* res.status(code).send(message): a plain-text body
SendText(r, code, message) ==
  [r EXCEPT !.pc = "done", !.status = code, !.kind = "text", !.text = message,
            !.sent = @ + 1]

\* res.json({ received: true, event_type }): status 200 by default
SendAck(r) ==
  [r EXCEPT !.pc = "done", !.status = 200, !.kind = "json",
            !.eventType = r.event[1].type, !.sent = @ + 1]

\* With the platform's body parser left on, the handler would see the body
\* parsed and written out again.
BufferReserialized(req) == Serialize(ParseBody(req.body))

\* config.api.bodyParser = false: buffer(req) yields the bytes as sent.
Buffer(req) == req.body

\* A verification that compares the signed bytes and not the secret.
SignatureVerifiesAnyKey(buf, sig, secret) == sig # None /\ sig[1].over = buf

\* stripe.webhooks.constructEvent(buf, sig, secret): the parsed event when the
\* signature is the one of these bytes under this secret, otherwise it throws.
SignatureVerifies(buf, sig, secret) == sig = Some(Sign(buf, secret))

constructEvent(buf) == ParseBody(buf)

\* A per-type handler body: its try block logs the details of the object and
\* holds the place of the persistence update; its catch swallows any error.
\* TRUE when the try block throws before reaching the end.
HandlerThrows(h, ev) == h \in TimestampHandlers /\ ev.object = "no_timestamps"


\* ------------------------------------------ create-payment-intent (part_000)

PayMethods == { "POST", "OPTIONS", "GET" }

\* The Origin header of a request: absent, an allowed origin, another one.
Origins ==
  { NoValue, "https://www.gammapace.com", "https://gurukullam.github.io", "null",
    "https://evil.example" }

allowedOrigins == { "https://www.gammapace.com", "https://gurukullam.github.io", "null" }

\* A field of the JSON body: not there, there with a falsy value (0), or
\* there with a value.
FieldStates == { "absent", "value" }
AmountStates == { "absent", "falsy", "value" }

Emails == { "ann@example.com" }
EmailStates == { "absent" } \cup Emails

PlanTypes == { "absent", "weekly", "monthly", "quarterly", "yearly" }

\* req.body is the JSON object the platform parsed from the request.
PayBodies ==
  [ amount : AmountStates, currency : FieldStates, payment_method_id : FieldStates,
    customer_email : EmailStates, plan_type : PlanTypes ]

\* The body of a request that carries none: no field is there.
EmptyBody ==
  [ amount |-> "absent", currency |-> "absent", payment_method_id |-> "absent",
    customer_email |-> "absent", plan_type |-> "absent" ]

\* POST requests carry a JSON body, preflight and other requests carry none.
PayRequests ==
  [ method : { "POST" }, origin : Origins, body : PayBodies ]
    \cup [ method : PayMethods \ { "POST" }, origin : Origins, body : { EmptyBody } ]

\* The classes of error a vendor call may throw, by error.type.
VendorErrors == { "StripeCardError", "StripeInvalidRequestError", "StripeAPIError" }

\* error.message of a vendor error.
VendorMessage(err) ==
  CASE err = "StripeCardError"           -> "Your card was declined."
    [] err = "StripeInvalidRequestError" -> "No such payment_method"
    [] OTHER                             -> "An error occurred with our connection to Stripe."

\* paymentIntent.status of a created and confirmed payment intent.
IntentStatuses ==
  { "succeeded", "requires_action", "requires_source_action",
    "requires_payment_method", "processing" }

PaySlots == 1 .. MaxPayInFlight

PayIdle ==
  [ pc |-> "idle", req |-> None, cors |-> NoValue, customer |-> NoValue,
    calls |-> << >>, status |-> 0, kind |-> NoValue, success |-> NoValue,
    error |-> NoValue, type |-> NoValue, requires_action |-> FALSE,
    intent |-> NoValue, thrown |-> NoValue, lookup |-> NoValue,
    charged |-> NoValue, plan_type |-> NoValue,
    start_date |-> None, end_date |-> None, sent |-> 0 ]

\* Lines 19-25: the Access-Control-Allow-Origin header, "none" when not set.
CorsOrigin(origin) ==
  IF origin \in allowedOrigins THEN origin
  ELSE IF origin = NoValue THEN "*"
  ELSE NoValue

\* !x of JavaScript for a field of the body.
Falsy(field) == field \in { "absent", "falsy" }

\* A validation that leaves customer_email out.
MissingRequiredNoEmail(body) ==
  Falsy(body.amount) \/ Falsy(body.currency) \/ Falsy(body.payment_method_id)

\* Line 56: !amount || !currency || !payment_method_id || !customer_email
MissingRequired(body) ==
  Falsy(body.amount) \/ Falsy(body.currency) \/ Falsy(body.payment_method_id)
    \/ Falsy(body.customer_email)

\* res.status(code).json({ success, error, type }) and res.status(code).end()
PayJson(r, code, success, error, type) ==
  [r EXCEPT !.pc = "done", !.status = code, !.kind = "json", !.success = success,
            !.error = error, !.type = type, !.sent = @ + 1]

PayEnd(r, code) ==
  [r EXCEPT !.pc = "done", !.status = code, !.kind = "empty", !.sent = @ + 1]

\* A vendor call is made: it is logged, and the handler awaits it.
CallVendor(r, call, pc) == [r EXCEPT !.calls = Append(@, call), !.pc = pc]

\* handler, lines 9-71: CORS headers, the method checks, the validation of
\* the required fields and the call of customers.list.
PayStart(req) ==
  LET r == [PayIdle EXCEPT !.req = Some(req), !.cors = CorsOrigin(req.origin)] IN
  IF req.method = "OPTIONS" THEN PayEnd(r, 200)
  ELSE IF req.method # "POST"
  THEN PayJson(r, 405, NoValue, "Method not allowed", NoValue)
  ELSE IF MissingRequired(req.body)
  THEN PayJson(r, 400, "false",
               "Missing required fields: amount, currency, payment_method_id, customer_email",
               NoValue)
  ELSE CallVendor(r, "customers.list", "listing")

\* ------------------------------------------ customer-portal: the requests

\* customer_id of the body: not there, the id of the customer the vendor may
\* hold, or an id the vendor does not hold.
IdStates == { "absent", "cus_0", "cus_9" }

PortalBodies ==
  [ customer_id : IdStates, customer_email : EmailStates, return_url : FieldStates ]

EmptyPortalBody ==
  [ customer_id |-> "absent", customer_email |-> "absent", return_url |-> "absent" ]

PortalRequests ==
  [ method : { "POST" }, origin : Origins, body : PortalBodies ]
    \cup [ method : PayMethods \ { "POST" }, origin : Origins,
           body : { EmptyPortalBody } ]

\* The errors a vendor call may throw, by error.type and error.code.
PortalErrors ==
  [ type : { "StripeInvalidRequestError", "StripeAPIError" },
    code : { NoValue, "customer_portal_inactive" } ]

PortalIdle ==
  [ pc |-> "idle", req |-> None, cors |-> NoValue, customerId |-> NoValue,
    calls |-> << >>, lookup |-> NoValue, retrieved |-> FALSE, sessionFor |-> NoValue,
    status |-> 0, kind |-> "none", success |-> NoValue, error |-> NoValue,
    type |-> NoValue, url |-> NoValue, sent |-> 0 ]

\* res.status(code).json({ success, error, type }) and res.status(code).end()
PortalJson(r, code, success, error, type) ==
  [r EXCEPT !.pc = "done", !.status = code, !.kind = "json", !.success = success,
            !.error = error, !.type = type, !.sent = @ + 1]

PortalEnd(r, code) ==
  [r EXCEPT !.pc = "done", !.status = code, !.kind = "empty", !.sent = @ + 1]

\* A validation that lets a body with a return_url through.
NoCustomerGivenNoUrl(body) ==
  /\ body.customer_id = "absent" /\ body.customer_email = "absent"
  /\ body.return_url = "absent"

\* Line 48: !customer_id && !customer_email
NoCustomerGiven(body) ==
  body.customer_id = "absent" /\ body.customer_email = "absent"

\* A start that looks the customer up by email whenever an email is given.
PortalStartEmailFirst(req) ==
  LET r == [PortalIdle EXCEPT !.req = Some(req), !.cors = CorsOrigin(req.origin)] IN
  IF req.method = "OPTIONS" THEN PortalEnd(r, 200)
  ELSE IF req.method # "POST"
  THEN PortalJson(r, 405, NoValue, "Method not allowed", NoValue)
  ELSE IF NoCustomerGiven(req.body)
  THEN PortalJson(r, 400, "false",
                  "Either customer_id or customer_email is required", NoValue)
  ELSE IF req.body.customer_email # "absent"
  THEN CallVendor(r, "customers.list", "listing")
  ELSE CallVendor([r EXCEPT !.customerId = req.body.customer_id],
                  "customers.retrieve", "retrieving")

\* handler, lines 9-81: CORS headers, the method checks, the validation, and
\* the call of customers.list (no customer_id) or of customers.retrieve.
PortalStart(req) ==
  LET r == [PortalIdle EXCEPT !.req = Some(req), !.cors = CorsOrigin(req.origin)] IN
  IF req.method = "OPTIONS" THEN PortalEnd(r, 200)
  ELSE IF req.method # "POST"
  THEN PortalJson(r, 405, NoValue, "Method not allowed", NoValue)
  ELSE IF NoCustomerGiven(req.body)
  THEN PortalJson(r, 400, "false",
                  "Either customer_id or customer_email is required", NoValue)
  ELSE IF req.body.customer_id = "absent" /\ req.body.customer_email # "absent"
  THEN CallVendor(r, "customers.list", "listing")
  ELSE CallVendor([r EXCEPT !.customerId = req.body.customer_id],
                  "customers.retrieve", "retrieving")

\* ------------------------------------------------- status: the requests

StatMethods == { "GET", "OPTIONS", "POST" }

StatIdle == [ pc |-> "idle", method |-> NoValue, status |-> 0, kind |-> "none", sent |-> 0 ]

\* handler, lines 4-32: the preflight gets an empty 200, every other method
\* the status document.
StatRespond(method) ==
  IF method = "OPTIONS"
  THEN [ pc |-> "done", method |-> method, status |-> 200, kind |-> "empty", sent |-> 1 ]
  ELSE [ pc |-> "done", method |-> method, status |-> 200, kind |-> "json", sent |-> 1 ]


\* The state after the modules were loaded: no request yet; the vendor holds
\* no customer, or one for the email.
Init ==
  /\ webhookSecret \in { NoValue, "whsec_live" }
  /\ dl = [d \in Slots |-> IdleSlot]
  /\ served = 0
  /\ applied = [e \in EventIds |-> 0]
  /\ acked = [e \in EventIds |-> 0]
  /\ pay = [p \in PaySlots |-> PayIdle]
  /\ customers \in { << >>, << [id |-> "cus_0", email |-> "ann@example.com"] >> }
  /\ payServed = 0
  /\ portal = PortalIdle
  /\ portalServed = 0
  /\ stat = StatIdle
  /\ statServed = 0

\* The webhook endpoint alone: the vendor's customers play no part.
InitWebhook == Init /\ customers = << >>

\* The create-payment-intent endpoint alone: the signing secret plays no part.
InitPay == Init /\ webhookSecret = "whsec_live"

\* The customer-portal endpoint alone.
InitPortal == Init /\ webhookSecret = "whsec_live"

\* ----------------------------------------------------- webhook handler

\* A handler that reads the body of every request, whatever its method.
InvokeReadFirst(d, req) ==
  /\ dl[d].pc \in { "idle", "done" }
  /\ served < MaxDeliveries
  /\ served' = served + 1
  /\ dl' = [dl EXCEPT ![d] =
              [IdleSlot EXCEPT !.req = Some(req), !.pc = "reading", !.bodyRead = TRUE]]
  /\ UNCHANGED << webhookSecret, applied, acked >>
  /\ UNCHANGED << payVars, portalVars, statVars >>

\* handler, lines 18-28: the method check, then the call of buffer(req).
Invoke(d, req) ==
  /\ dl[d].pc \in { "idle", "done" }
  /\ served < MaxDeliveries
  /\ served' = served + 1
  /\ dl' = [dl EXCEPT ![d] =
              IF req.method # "POST"
              THEN EndWith([IdleSlot EXCEPT !.req = Some(req)], 405)
              ELSE [IdleSlot EXCEPT !.req = Some(req), !.pc = "reading", !.bodyRead = TRUE]]
  /\ UNCHANGED << webhookSecret, applied, acked >>
  /\ UNCHANGED << payVars, portalVars, statVars >>

\* buffer(req) rejects: the outer catch answers 500.
BufferRejects(d) ==
  /\ dl[d].pc = "reading"
  /\ dl' = [dl EXCEPT ![d] = SendText(dl[d], 500, "Webhook processing failed")]
  /\ UNCHANGED << webhookSecret, served, applied, acked >>
  /\ UNCHANGED << payVars, portalVars, statVars >>

\* Per-type handlers without their own try/catch: the error of a handler
\* reaches the outer catch of the webhook handler.
DispatchUncaught(r, ev) ==
  LET h == HandlerFor(ev.type)
      r1 == [r EXCEPT !.verified = "passed", !.event = Some(ev)]
  IN  IF h = NoValue THEN SendAck(r1)
      ELSE IF HandlerThrows(h, ev)
      THEN SendText([r1 EXCEPT !.invoked = Append(@, h)], 500, "Webhook processing failed")
      ELSE [r1 EXCEPT !.pc = "awaiting", !.invoked = Append(@, h)]

\* The switch on event.type, lines 56-119, for a verified event: the recognized
\* types call their handler and await it, the others fall to the default case
\* and reach res.json in the same segment.
Dispatch(r, ev) ==
  LET h == HandlerFor(ev.type) IN
  IF h = NoValue
  THEN SendAck([r EXCEPT !.verified = "passed", !.event = Some(ev)])
  ELSE [r EXCEPT !.verified = "passed", !.event = Some(ev), !.pc = "awaiting",
                 !.invoked = Append(@, h), !.caught = HandlerThrows(h, ev)]

\* The two configuration checks in the other order.
ProcessSecretFirst(r) ==
  LET buf == Buffer(r.req[1])
      r1  == [r EXCEPT !.buf = Some(buf)]
      sig == r.req[1].sig
  IN  IF webhookSecret = NoValue
      THEN SendText(r1, 500, "Webhook secret not configured")
      ELSE IF sig = None
      THEN SendText(r1, 400, "Missing Stripe signature")
      ELSE IF ~ SignatureVerifies(buf, sig, webhookSecret)
      THEN SendText([r1 EXCEPT !.verified = "failed"], 400, "Webhook Error")
      ELSE Dispatch(r1, constructEvent(buf))

\* The answer to a missing signature without its return: the handler goes on
\* to the next check.
ProcessNoReturn(r) ==
  LET buf == Buffer(r.req[1])
      sig == r.req[1].sig
      r1  == IF sig = None
             THEN SendText([r EXCEPT !.buf = Some(buf)], 400, "Missing Stripe signature")
             ELSE [r EXCEPT !.buf = Some(buf)]
  IN  IF webhookSecret = NoValue
      THEN SendText(r1, 500, "Webhook secret not configured")
      ELSE IF ~ SignatureVerifies(buf, sig, webhookSecret)
      THEN SendText([r1 EXCEPT !.verified = "failed"], 400, "Webhook Error")
      ELSE Dispatch(r1, constructEvent(buf))

\* handler, lines 29-119, after buffer(req) resolved.
Process(r) ==
  LET buf == Buffer(r.req[1])
      r1  == [r EXCEPT !.buf = Some(buf)]
      sig == r.req[1].sig
  IN  IF sig = None
      THEN SendText(r1, 400, "Missing Stripe signature")
      ELSE IF webhookSecret = NoValue
      THEN SendText(r1, 500, "Webhook secret not configured")
      ELSE IF ~ SignatureVerifies(buf, sig, webhookSecret)
      THEN SendText([r1 EXCEPT !.verified = "failed"], 400, "Webhook Error")
      ELSE Dispatch(r1, constructEvent(buf))

\* The side-effect points a segment reached: the end of a handler's try block.
Applied(r) ==
  IF r.pc = "awaiting" /\ ~ r.caught THEN { r.event[1].id } ELSE { }

\* The acknowledgements a segment sent.
Acked(r) ==
  IF r.pc = "done" /\ r.status = 200 /\ r.kind = "json" THEN { r.event[1].id } ELSE { }

BufferResolves(d) ==
  /\ dl[d].pc = "reading"
  /\ LET r == Process(dl[d]) IN
       /\ dl' = [dl EXCEPT ![d] = r]
       /\ applied' = [e \in EventIds |-> applied[e] + IF e \in Applied(r) THEN 1 ELSE 0]
       /\ acked' = [e \in EventIds |-> acked[e] + IF e \in Acked(r) THEN 1 ELSE 0]
  /\ UNCHANGED << webhookSecret, served >>
  /\ UNCHANGED << payVars, portalVars, statVars >>

\* handler, line 122, after the awaited per-type handler returned.
Respond(d) ==
  /\ dl[d].pc = "awaiting"
  /\ LET r == SendAck(dl[d]) IN
       /\ dl' = [dl EXCEPT ![d] = r]
       /\ acked' = [e \in EventIds |-> acked[e] + IF e \in Acked(r) THEN 1 ELSE 0]
  /\ UNCHANGED << webhookSecret, served, applied >>
  /\ UNCHANGED << payVars, portalVars, statVars >>

\* One invocation at a time: any request, the next one after the response.
Next ==
  \/ \E req \in Requests : Invoke(1, req)
  \/ BufferRejects(1)
  \/ BufferResolves(1)
  \/ Respond(1)

Spec == InitWebhook /\ [][Next]_vars

\* Concurrent invocations of the vendor's deliveries.
NextConc ==
  \/ \E d \in Slots : \E req \in VendorRequests : Invoke(d, req)
  \/ \E d \in Slots : BufferRejects(d)
  \/ \E d \in Slots : BufferResolves(d)
  \/ \E d \in Slots : Respond(d)

SpecConc == InitWebhook /\ [][NextConc]_vars

\* ------------------------------------- create-payment-intent: the steps

PayInvoke(p, req) ==
  /\ pay[p].pc \in { "idle", "done" }
  /\ payServed < MaxPayRequests
  /\ payServed' = payServed + 1
  /\ pay' = [pay EXCEPT ![p] = PayStart(req)]
  /\ UNCHANGED customers
  /\ UNCHANGED << whVars, portalVars, statVars >>

\* The customers the vendor holds for an email, the most recent first.
CustomersOf(email) == SelectSeq(customers, LAMBDA c : c.email = email)

\* Lines 92-106: paymentIntents.create is called with customer: customer.id.
CreateIntent(r) ==
  CallVendor([r EXCEPT !.charged = r.customer], "paymentIntents.create", "charging")

\* A handler that creates a customer whatever the lookup returned.
AfterListAlwaysCreate(r, found) ==
  CallVendor([r EXCEPT !.lookup = IF Len(found) > 0 THEN "found" ELSE "empty"],
             "customers.create", "creating")

\* Lines 73-106, with the customers that customers.list returned: an existing
\* customer is taken, otherwise customers.create is called.
AfterList(r, found) ==
  IF Len(found) > 0
  THEN CreateIntent([r EXCEPT !.lookup = "found", !.customer = found[1].id])
  ELSE CallVendor([r EXCEPT !.lookup = "empty"], "customers.create", "creating")

\* handler, lines 73-106, after customers.list returned.
ListResolves(p) ==
  /\ pay[p].pc = "listing"
  /\ pay' = [pay EXCEPT ![p] =
               AfterList(pay[p], CustomersOf(pay[p].req[1].body.customer_email))]
  /\ UNCHANGED << customers, payServed >>
  /\ UNCHANGED << whVars, portalVars, statVars >>

\* handler, lines 77-106, after customers.create returned the new customer.
CreateResolves(p) ==
  /\ pay[p].pc = "creating"
  /\ LET id == "cus_" \o ToString(Len(customers) + 1)
     IN  /\ customers' =
               << [id |-> id, email |-> pay[p].req[1].body.customer_email] >> \o customers
         /\ pay' = [pay EXCEPT ![p] = CreateIntent([pay[p] EXCEPT !.customer = id])]
  /\ UNCHANGED payServed
  /\ UNCHANGED << whVars, portalVars, statVars >>

\* A Date: the day and the millisecond of the day, counted from the first
\* reading of the clock in the segment.
FirstReading == [day |-> 0, ms |-> 0]

\* new Date() after the clock advanced by elapsed milliseconds.
NewDate(elapsed) == [day |-> 0, ms |-> elapsed]

\* plan_type || 'monthly'
PlanOrDefault(plan) == IF plan = "absent" THEN "monthly" ELSE plan

\* calculateEndDate, lines 195-217: setDate(getDate() + n) moves the day and
\* keeps the time of the day.
calculateEndDate(startDate, planType) ==
  CASE planType = "weekly"    -> [startDate EXCEPT !.day = @ + 7]
    [] planType = "monthly"   -> [startDate EXCEPT !.day = @ + 30]
    [] planType = "quarterly" -> [startDate EXCEPT !.day = @ + 90]
    [] OTHER                  -> [startDate EXCEPT !.day = @ + 30]

\* An answer that takes every status but the two of an action for a success.
IntentResponseLenient(r, st, elapsed) ==
  IF st \in { "requires_action", "requires_source_action" }
  THEN [PayJson(r, 200, "false", NoValue, NoValue) EXCEPT
          !.requires_action = TRUE, !.intent = st]
  ELSE [PayJson(r, 200, "true", NoValue, NoValue) EXCEPT
          !.intent = st, !.plan_type = PlanOrDefault(r.req[1].body.plan_type),
          !.start_date = Some(FirstReading),
          !.end_date = Some(calculateEndDate(NewDate(elapsed), "monthly"))]

\* handler, lines 115-166, after paymentIntents.create returned an intent.
\* Lines 135 and 136 read the clock one after the other: elapsed is what it
\* advanced in between.
IntentResponse(r, st, elapsed) ==
  IF st \in { "requires_action", "requires_source_action" }
  THEN [PayJson(r, 200, "false", NoValue, NoValue) EXCEPT
          !.requires_action = TRUE, !.intent = st]
  ELSE IF st = "succeeded"
  THEN LET plan == PlanOrDefault(r.req[1].body.plan_type) IN
       [PayJson(r, 200, "true", NoValue, NoValue) EXCEPT
          !.intent = st, !.plan_type = plan,
          !.start_date = Some(FirstReading),
          !.end_date = Some(calculateEndDate(NewDate(elapsed), plan))]
  ELSE [PayJson(r, 400, "false", "Payment failed", NoValue) EXCEPT !.intent = st]

ChargeResolves(p, st) ==
  /\ pay[p].pc = "charging"
  /\ \E elapsed \in 0 .. MaxClockAdvance :
       pay' = [pay EXCEPT ![p] = IntentResponse(pay[p], st, elapsed)]
  /\ UNCHANGED << customers, payServed >>
  /\ UNCHANGED << whVars, portalVars, statVars >>

\* handler, lines 168-191: the catch of an error thrown by a vendor call.
ErrorResponse(r, err) ==
  IF err = "StripeCardError"
  THEN PayJson(r, 400, "false", VendorMessage(err), "card_error")
  ELSE IF err = "StripeInvalidRequestError"
  THEN PayJson(r, 400, "false", "Invalid payment request", "invalid_request")
  ELSE PayJson(r, 500, "false", "Payment processing failed", "server_error")

VendorRejects(p, err) ==
  /\ pay[p].pc \in { "listing", "creating", "charging" }
  /\ pay' = [pay EXCEPT ![p] = ErrorResponse([pay[p] EXCEPT !.thrown = err], err)]
  /\ UNCHANGED << customers, payServed >>
  /\ UNCHANGED << whVars, portalVars, statVars >>

\* One create-payment-intent request at a time.
NextPay ==
  \/ \E req \in PayRequests : PayInvoke(1, req)
  \/ ListResolves(1)
  \/ CreateResolves(1)
  \/ \E st \in IntentStatuses : ChargeResolves(1, st)
  \/ \E err \in VendorErrors : VendorRejects(1, err)

SpecPay == InitPay /\ [][NextPay]_vars

\* The requests of one customer that pass the validation.
CustomerRequests ==
  { req \in PayRequests :
      /\ req.method = "POST" /\ ~ MissingRequired(req.body)
      /\ req.origin = "https://www.gammapace.com" }

\* Concurrent create-payment-intent requests: an invocation starts while
\* another one awaits a vendor call.
NextPayConc ==
  \E p \in PaySlots :
    \/ \E req \in CustomerRequests : PayInvoke(p, req)
    \/ ListResolves(p)
    \/ CreateResolves(p)
    \/ \E st \in IntentStatuses : ChargeResolves(p, st)
    \/ \E err \in VendorErrors : VendorRejects(p, err)

SpecPayConc == InitPay /\ [][NextPayConc]_vars

\* ------------------------------------------- customer-portal: the steps

PortalInvoke(req) ==
  /\ portal.pc \in { "idle", "done" }
  /\ portalServed < MaxPortalRequests
  /\ portalServed' = portalServed + 1
  /\ portal' = PortalStart(req)
  /\ UNCHANGED << stat, statServed >>
  /\ UNCHANGED << whVars, payVars >>

\* handler, lines 67-81, after customers.list returned: no customer is
\* answered 404, otherwise customers.retrieve is called for the first one.
PortalListResolves ==
  /\ portal.pc = "listing"
  /\ LET found == CustomersOf(portal.req[1].body.customer_email) IN
       portal' =
         IF Len(found) = 0
         THEN PortalJson([portal EXCEPT !.lookup = "empty"], 404, "false",
                "Customer not found. Please ensure you have an active subscription.",
                NoValue)
         ELSE CallVendor([portal EXCEPT !.lookup = "found", !.customerId = found[1].id],
                         "customers.retrieve", "retrieving")
  /\ UNCHANGED << portalServed, stat, statServed >>
  /\ UNCHANGED << whVars, payVars >>

\* handler, lines 87-93: the catch around customers.retrieve.
RetrieveCatch(r) ==
  PortalJson(r, 404, "false", "Customer not found. Please contact support.", NoValue)

\* handler, lines 82-101, after customers.retrieve returned the customer the
\* vendor holds under the id: billingPortal.sessions.create is called.
PortalRetrieveResolves ==
  /\ portal.pc = "retrieving"
  /\ \E i \in 1 .. Len(customers) : customers[i].id = portal.customerId
  /\ portal' = CallVendor([portal EXCEPT !.retrieved = TRUE, !.sessionFor = portal.customerId],
                          "billingPortal.sessions.create", "opening")
  /\ UNCHANGED << portalServed, stat, statServed >>
  /\ UNCHANGED << whVars, payVars >>

\* customers.retrieve threw: the vendor holds no such customer, or the call
\* failed.
PortalRetrieveRejects ==
  /\ portal.pc = "retrieving"
  /\ portal' = RetrieveCatch(portal)
  /\ UNCHANGED << portalServed, stat, statServed >>
  /\ UNCHANGED << whVars, payVars >>

\* handler, lines 103-114, after billingPortal.sessions.create returned.
PortalSessionResolves ==
  /\ portal.pc = "opening"
  /\ portal' = [PortalJson(portal, 200, "true", NoValue, NoValue) EXCEPT
                  !.url = "https://billing.stripe.com/session"]
  /\ UNCHANGED << portalServed, stat, statServed >>
  /\ UNCHANGED << whVars, payVars >>

\* handler, lines 116-139: the catch of an error thrown by customers.list or
\* billingPortal.sessions.create.
PortalErrorResponse(r, err) ==
  IF err.type = "StripeInvalidRequestError"
  THEN PortalJson(r, 400, "false", "Invalid customer information", "invalid_request")
  ELSE IF err.code = "customer_portal_inactive"
  THEN PortalJson(r, 400, "false",
                  "Customer portal is not activated. Please contact support.",
                  "portal_inactive")
  ELSE PortalJson(r, 500, "false", "Unable to create customer portal session",
                  "server_error")

PortalVendorRejects(err) ==
  /\ portal.pc \in { "listing", "opening" }
  /\ portal' = PortalErrorResponse(portal, err)
  /\ UNCHANGED << portalServed, stat, statServed >>
  /\ UNCHANGED << whVars, payVars >>

NextPortal ==
  \/ \E req \in PortalRequests : PortalInvoke(req)
  \/ PortalListResolves
  \/ PortalRetrieveResolves
  \/ PortalRetrieveRejects
  \/ PortalSessionResolves
  \/ \E err \in PortalErrors : PortalVendorRejects(err)

SpecPortal == InitPortal /\ [][NextPortal]_vars

\* ------------------------------------------------------ status: the steps

StatInvoke(method) ==
  /\ statServed < MaxStatusRequests
  /\ statServed' = statServed + 1
  /\ stat' = StatRespond(method)
  /\ UNCHANGED << portal, portalServed >>
  /\ UNCHANGED << whVars, payVars >>

\* ------------------------------------------------- the four functions

\* Each handler is deployed as a function of its own and shares no state with
\* the others: a run sends its requests to one of the four.
WebhookOnly == payServed = 0 /\ portalServed = 0 /\ statServed = 0
PayOnly == served = 0 /\ portalServed = 0 /\ statServed = 0
PortalOnly == served = 0 /\ payServed = 0 /\ statServed = 0
StatOnly == served = 0 /\ payServed = 0 /\ portalServed = 0

NextAll ==
  \/ WebhookOnly /\ Next
  \/ PayOnly /\ NextPay
  \/ PortalOnly /\ NextPortal
  \/ StatOnly /\ \E method \in StatMethods : StatInvoke(method)

SpecAll == Init /\ [][NextAll]_vars

\* ------------------------------------------------------------------ claims

Done(d) == dl[d].pc = "done"
Req(d) == dl[d].req[1]
IsPost(d) == dl[d].req # None /\ Req(d).method = "POST"
BodyWasRead(d) == dl[d].buf # None
HasSignature(d) == Req(d).sig # None
SecretConfigured == webhookSecret # NoValue
\* The signature of the request is the vendor's one for its body under the
\* configured secret.
ValidSignature(d) == Req(d).sig = Some(Sign(Req(d).body, webhookSecret))
Verified(d) == dl[d].verified = "passed"
ClientError(code) == code >= 400 /\ code <= 499

\* C1: however often the same verified event is delivered, one after the
\* other, the side effect of its identifier is applied at most once.
C1_AtMostOneSideEffect ==
  \A e \in EventIds : applied[e] <= 1

\* C2: of two concurrent deliveries of the same verified event, at most one
\* gets past the check of the identifier and applies the side effect: one
\* record for the identifier reaches the sink.
C2_ConcurrentDeliveriesRecordOnce ==
  \A d1 \in Slots : \A d2 \in Slots :
    ( /\ d1 # d2
      /\ Verified(d1) /\ Verified(d2)
      /\ dl[d1].event[1].id = dl[d2].event[1].id
      /\ dl[d1].event[1].type = "payment_intent.succeeded"
      /\ dl[d2].event[1].type = "payment_intent.succeeded" )
    => Len(dl[d1].invoked) + Len(dl[d2].invoked) <= 1

\* C3: once the signature verification of a delivery has passed the handler
\* is awaiting the per-type handler or has answered 200 with the
\* acknowledgement, also when the per-type handler failed; a 4xx or 5xx answer
\* is given only to deliveries that were not verified, and a 500 only when the
\* body could not be read or no secret is configured.
C3_VerifiedAlwaysAcknowledged ==
  \A d \in Slots :
    /\ Verified(d) => dl[d].pc \in { "awaiting", "done" }
    /\ (Verified(d) /\ Done(d)) => (dl[d].status = 200 /\ dl[d].kind = "json")
    /\ dl[d].status >= 400 => ~ Verified(d)
    /\ dl[d].status >= 500 => (~ BodyWasRead(d) \/ ~ SecretConfigured)

\* A verified delivery whose per-type handler threw has been answered.
C3_Witness ==
  \E d \in Slots : Verified(d) /\ Done(d) /\ dl[d].caught /\ dl[d].invoked # << >>

\* C4: every POST request without a signature header, whatever the body the
\* handler received and whether or not the secret is configured, is answered
\* 400 with the text of the missing signature and runs no per-type handler.
\* (When buffer(req) rejects, the outer catch answers 500 before the header
\* is looked at: the handler-internal failure, not a case of this claim.)
C4_MissingSignature400 ==
  \A d \in Slots :
    (Done(d) /\ IsPost(d) /\ ~ HasSignature(d) /\ BodyWasRead(d))
    => ( /\ dl[d].status = 400 /\ dl[d].text = "Missing Stripe signature"
         /\ dl[d].invoked = << >> /\ dl[d].verified = NoValue )

\* A request without a signature header was answered while no secret is set.
C4_Witness ==
  \E d \in Slots :
    Done(d) /\ IsPost(d) /\ ~ HasSignature(d) /\ BodyWasRead(d) /\ ~ SecretConfigured

\* C5: a delivery whose signature the handler verifies (the body was read, a
\* secret is configured) and finds not to be the one of its body under the
\* configured secret is answered with a 4xx status and a text, not with the
\* acknowledgement, and runs no per-type handler.
C5_BadSignature4xx ==
  \A d \in Slots :
    (IsPost(d) /\ HasSignature(d) /\ SecretConfigured /\ ~ ValidSignature(d)
       /\ BodyWasRead(d))
    => ( /\ Done(d) /\ ClientError(dl[d].status) /\ dl[d].status # 200
         /\ dl[d].kind = "text" /\ dl[d].invoked = << >> /\ ~ Verified(d) )

\* A delivery signed with another secret over its own body was answered.
C5_Witness ==
  \E d \in Slots :
    /\ Done(d) /\ IsPost(d) /\ BodyWasRead(d) /\ SecretConfigured
    /\ Req(d).sig = Some(Sign(Req(d).body, "whsec_other"))

\* C6: with no signing secret configured, a POST delivery that carries a
\* signature header (and whose body was read) is answered with a 4xx status
\* and a plain-text message, and no handler runs.
C6_MissingSecret4xx ==
  \A d \in Slots :
    (Done(d) /\ IsPost(d) /\ HasSignature(d) /\ ~ SecretConfigured /\ BodyWasRead(d))
    => (ClientError(dl[d].status) /\ dl[d].kind = "text" /\ dl[d].invoked = << >>)

\* C7: a verified event of a type that is not one of the seven recognized
\* ones is acknowledged with 200 and runs no per-type handler.
C7_UnrecognizedAcknowledged ==
  \A d \in Slots :
    (Verified(d) /\ dl[d].event[1].type \notin RecognizedTypes)
    => ( /\ Done(d) /\ dl[d].status = 200 /\ dl[d].kind = "json"
         /\ dl[d].invoked = << >> /\ ~ dl[d].caught )

\* A verified event of an unrecognized type was answered.
C7_Witness ==
  \E d \in Slots :
    Verified(d) /\ Done(d) /\ dl[d].event[1].type = "charge.refunded"

\* The handler the contract names for each recognized type.
ExpectedHandler(type) ==
  CASE type = "payment_intent.succeeded"      -> << "handlePaymentSuccess" >>
    [] type = "payment_intent.payment_failed" -> << "handlePaymentFailed" >>
    [] type = "customer.subscription.created" -> << "handleSubscriptionCreated" >>
    [] type = "customer.subscription.updated" -> << "handleSubscriptionUpdated" >>
    [] type = "customer.subscription.deleted" -> << "handleSubscriptionCancelled" >>
    [] type = "invoice.payment_succeeded"     -> << "handleInvoicePayment" >>
    [] type = "invoice.payment_failed"        -> << "handleInvoicePaymentFailed" >>
    [] OTHER                                  -> << >>

\* C8: for a verified event the handler has invoked the per-type handler of
\* the type that was sent, once, and no other, and the acknowledgement
\* carries the type that was sent.
C8_ExactlyThePerTypeHandler ==
  \A d \in Slots :
    Verified(d) =>
      /\ dl[d].invoked = ExpectedHandler(Req(d).body.type)
      /\ Done(d) => (dl[d].status = 200 /\ dl[d].eventType = Req(d).body.type)

\* A verified subscription-created event was acknowledged.
C8_Witness ==
  \E d \in Slots :
    /\ Verified(d) /\ Done(d)
    /\ Req(d).body.type = "customer.subscription.created"
    /\ dl[d].invoked = << "handleSubscriptionCreated" >>

\* C9: with a secret S configured, a delivery of the bytes B is accepted (200)
\* when its signature was computed from (B, S), and rejected (400, never
\* verified) when it was computed from other bytes or with another secret.
C9_AcceptsExactlyValidSignatures ==
  \A d \in Slots :
    (Done(d) /\ IsPost(d) /\ HasSignature(d) /\ SecretConfigured /\ BodyWasRead(d))
    => ( /\ ValidSignature(d) => (dl[d].status = 200 /\ Verified(d))
         /\ ~ ValidSignature(d) => (dl[d].status = 400 /\ ~ Verified(d)) )

\* A delivery in the spaced byte layout with the vendor's signature was
\* accepted.
C9_Witness ==
  \E d \in Slots :
    /\ Done(d) /\ IsPost(d) /\ SecretConfigured /\ BodyWasRead(d)
    /\ ValidSignature(d) /\ Req(d).body.layout = "spaced" /\ dl[d].status = 200

PayDone(p) == pay[p].pc = "done"
PayReq(p) == pay[p].req[1]
PayIsPost(p) == pay[p].req # None /\ PayReq(p).method = "POST"
\* The body has no customer_email, amount, currency or payment_method_id.
LacksRequired(body) ==
  \/ body.customer_email = "absent" \/ body.amount = "absent"
  \/ body.currency = "absent" \/ body.payment_method_id = "absent"

\* C10: a create-payment-intent POST request whose body lacks customer_email or
\* another required field is answered 400 with success false and the
\* validation message in the segment that received it, and no vendor call is
\* made for it, neither before nor after the answer.
C10_MissingFieldNoVendorCall ==
  \A p \in PaySlots :
    (PayIsPost(p) /\ LacksRequired(PayReq(p).body))
    => ( /\ PayDone(p) /\ pay[p].status = 400 /\ pay[p].success = "false"
         /\ pay[p].type = NoValue /\ pay[p].intent = NoValue
         /\ pay[p].calls = << >> /\ pay[p].customer = NoValue )

\* A request with every required field but customer_email was answered.
C10_Witness ==
  \E p \in PaySlots :
    /\ PayDone(p) /\ PayIsPost(p)
    /\ PayReq(p).body.customer_email = "absent"
    /\ PayReq(p).body.amount = "value" /\ PayReq(p).body.currency = "value"
    /\ PayReq(p).body.payment_method_id = "value"

\* The type the contract gives to each class of vendor error.
ExpectedErrorType(err) ==
  CASE err = "StripeCardError"           -> "card_error"
    [] err = "StripeInvalidRequestError" -> "invalid_request"
    [] OTHER                             -> "server_error"

\* C11: when a vendor call of a create-payment-intent request throws, the
\* answer carries the vendor's error message unchanged and the type that
\* matches the class of the vendor error, for every class of vendor error.
C11_VendorErrorVerbatim ==
  \A p \in PaySlots :
    (PayDone(p) /\ pay[p].thrown # NoValue)
    => ( /\ pay[p].error = VendorMessage(pay[p].thrown)
         /\ pay[p].type = ExpectedErrorType(pay[p].thrown) )

PortalDone == portal.pc = "done"
PortalReq == portal.req[1]
PortalIsPost == portal.req # None /\ PortalReq.method = "POST"

\* C12: a customer-portal POST request whose body has neither customer_id nor
\* customer_email is answered 400 with success false and the validation
\* message in the segment that received it, and no vendor call is made for
\* it: no customers.list, no customers.retrieve, no
\* billingPortal.sessions.create.
C12_NoCustomerNoVendorCall ==
  ( /\ PortalIsPost
    /\ PortalReq.body.customer_id = "absent"
    /\ PortalReq.body.customer_email = "absent" )
  => ( /\ PortalDone /\ portal.status = 400 /\ portal.success = "false"
       /\ portal.error = "Either customer_id or customer_email is required"
       /\ portal.calls = << >> /\ portal.url = NoValue )

\* A request with a return_url but neither customer_id nor customer_email was
\* answered.
C12_Witness ==
  /\ PortalDone /\ PortalIsPost
  /\ PortalReq.body.customer_id = "absent"
  /\ PortalReq.body.customer_email = "absent"
  /\ PortalReq.body.return_url = "value"

\* The one origin the documentation names.
DocumentedOrigin == "https://www.gammapace.com"

\* C13: for every request to the create-payment-intent and customer-portal
\* endpoints the Access-Control-Allow-Origin header is the documented origin
\* or is not set, never another origin and never the wildcard, and a request
\* from any other origin causes no vendor call.
C13_OnlyDocumentedOrigin ==
  /\ \A p \in PaySlots :
       pay[p].req # None =>
         /\ pay[p].cors \in { DocumentedOrigin, NoValue }
         /\ PayReq(p).origin # DocumentedOrigin => pay[p].calls = << >>
  /\ portal.req # None =>
       /\ portal.cors \in { DocumentedOrigin, NoValue }
       /\ PortalReq.origin # DocumentedOrigin => portal.calls = << >>

\* The days the documentation gives to each plan.
ExpectedDays(plan) ==
  CASE plan = "weekly"    -> 7
    [] plan = "monthly"   -> 30
    [] plan = "quarterly" -> 90
    [] OTHER              -> 30

\* C14: the subscription_data of a succeeded payment has an end_date that is
\* the start_date plus exactly 7 days for weekly, 30 for monthly, 90 for
\* quarterly and 30 for an absent or any other plan_type, and the end_date is
\* later than the start_date.
C14_EndDateExactDays ==
  \A p \in PaySlots :
    (PayDone(p) /\ pay[p].intent = "succeeded")
    => LET start == pay[p].start_date[1]
           end == pay[p].end_date[1]
       IN  /\ end.day = start.day + ExpectedDays(PayReq(p).body.plan_type)
           /\ end.ms = start.ms
           /\ end.day > start.day

\* C15: the answer to a request whose payment intent was created is
\* determined by the status of the intent: requires_action and
\* requires_source_action give 200 with success false and requires_action
\* true, succeeded gives 200 with success true, every other status gives 400
\* with success false; success is true only for a succeeded intent.
C15_AnswerByIntentStatus ==
  \A p \in PaySlots :
    /\ (PayDone(p) /\ pay[p].intent # NoValue) =>
         CASE pay[p].intent \in { "requires_action", "requires_source_action" } ->
                /\ pay[p].status = 200 /\ pay[p].success = "false"
                /\ pay[p].requires_action
           [] pay[p].intent = "succeeded" ->
                /\ pay[p].status = 200 /\ pay[p].success = "true"
                /\ ~ pay[p].requires_action
           [] OTHER ->
                /\ pay[p].status = 400 /\ pay[p].success = "false"
                /\ ~ pay[p].requires_action
    /\ pay[p].success = "true" => pay[p].intent = "succeeded"
    /\ (pay[p].pc = "charging") => pay[p].intent = NoValue

\* An intent that stayed in processing was answered.
C15_Witness ==
  \E p \in PaySlots :
    PayDone(p) /\ pay[p].intent = "processing" /\ pay[p].status = 400

\* C16: every invocation of the webhook, create-payment-intent,
\* customer-portal and status handlers sends exactly one HTTP response: none
\* while it awaits a vendor call, the body or a per-type handler, one when it
\* has ended, and an invocation that awaits can go on as soon as what it
\* awaits returns or throws.
C16_ExactlyOneResponse ==
  /\ \A d \in Slots :
       /\ dl[d].sent = (IF Done(d) THEN 1 ELSE 0)
       /\ dl[d].pc = "reading" => ENABLED BufferResolves(d) /\ ENABLED BufferRejects(d)
       /\ dl[d].pc = "awaiting" => ENABLED Respond(d)
       /\ dl[d].pc \in { "idle", "reading", "awaiting", "done" }
  /\ \A p \in PaySlots :
       /\ pay[p].sent = (IF PayDone(p) THEN 1 ELSE 0)
       /\ pay[p].pc = "listing" => ENABLED ListResolves(p)
       /\ pay[p].pc = "creating" => ENABLED CreateResolves(p)
       /\ pay[p].pc = "charging" => ENABLED ChargeResolves(p, "succeeded")
       /\ pay[p].pc \in { "listing", "creating", "charging" }
            => ENABLED VendorRejects(p, "StripeAPIError")
       /\ pay[p].pc \in { "idle", "listing", "creating", "charging", "done" }
  /\ portal.sent = (IF PortalDone THEN 1 ELSE 0)
  /\ portal.pc = "listing" => ENABLED PortalListResolves
  /\ portal.pc = "retrieving" => ENABLED PortalRetrieveRejects
  /\ portal.pc = "opening" => ENABLED PortalSessionResolves
  /\ portal.pc \in { "idle", "listing", "retrieving", "opening", "done" }
  /\ stat.sent = (IF stat.pc = "done" THEN 1 ELSE 0)
  /\ stat.pc \in { "idle", "done" }

\* A customer-portal request that awaited three vendor calls got its one
\* answer.
C16_Witness ==
  /\ PortalDone /\ portal.sent = 1 /\ portal.url # NoValue
  /\ portal.calls =
       << "customers.list", "customers.retrieve", "billingPortal.sessions.create" >>

\* C17: a request to the webhook whose method is not POST is answered 405 in
\* the segment that received it, before the body is read: no signature is
\* verified, no per-type handler runs and no side-effect point is reached.
C17_NonPostBeforeBodyRead ==
  \A d \in Slots :
    (dl[d].req # None /\ Req(d).method # "POST")
    => ( /\ Done(d) /\ dl[d].status = 405 /\ dl[d].kind = "empty"
         /\ ~ dl[d].bodyRead /\ dl[d].buf = None
         /\ dl[d].verified = NoValue /\ dl[d].event = None
         /\ dl[d].invoked = << >> )

\* A GET request that carries the vendor's signature for its body was
\* answered.
C17_Witness ==
  \E d \in Slots :
    /\ Done(d) /\ dl[d].req # None /\ Req(d).method = "GET"
    /\ SecretConfigured /\ ValidSignature(d)

\* The vendor holds a customer with this id for this email.
VendorHolds(id, email) ==
  \E i \in 1 .. Len(customers) : customers[i].id = id /\ customers[i].email = email

\* C18: within one create-payment-intent request customers.create is called
\* only when the lookup returned no customer, and never when it found one;
\* paymentIntents.create is called at most once, only after a customer was
\* found or created, and with the id of that customer.
C18_CustomerBeforeIntent ==
  \A p \in PaySlots :
    LET r == pay[p] IN
    /\ r.calls \in
         { << >>, << "customers.list" >>,
           << "customers.list", "customers.create" >>,
           << "customers.list", "paymentIntents.create" >>,
           << "customers.list", "customers.create", "paymentIntents.create" >> }
    /\ Len(r.calls) >= 2 =>
         (r.calls[2] = "customers.create" <=> r.lookup = "empty")
    /\ r.pc = "creating" => CustomersOf(PayReq(p).body.customer_email) = << >>
    /\ r.charged # NoValue <=>
         (Len(r.calls) >= 2 /\ r.calls[Len(r.calls)] = "paymentIntents.create")
    /\ r.charged # NoValue =>
         /\ r.charged = r.customer
         /\ VendorHolds(r.charged, PayReq(p).body.customer_email)
         /\ r.lookup = "found" \/ r.calls[2] = "customers.create"

\* A request whose lookup found the customer of an earlier request was
\* charged to that customer.
C18_Witness ==
  \E p \in PaySlots :
    /\ PayDone(p) /\ pay[p].lookup = "found" /\ pay[p].charged = "cus_1"
    /\ pay[p].intent = "succeeded"

\* C19: whatever the interleaving of two concurrent create-payment-intent
\* requests with the same customer_email, the vendor ends up with at most one
\* customer for that email.
C19_OneCustomerPerEmail ==
  \A email \in Emails : Len(CustomersOf(email)) <= 1

\* C20: the customer-portal handler calls billingPortal.sessions.create only
\* after customers.retrieve returned the customer of the resolved identifier;
\* when the lookup by email returns no customer or customers.retrieve fails
\* it answers 404 and never creates a session; a customer_id in the body
\* takes precedence, and the lookup by email runs only without one.
C20_SessionOnlyForRetrievedCustomer ==
  LET body == PortalReq.body
      last == portal.calls[Len(portal.calls)]
  IN
  /\ portal.calls \in
       { << >>, << "customers.list" >>, << "customers.retrieve" >>,
         << "customers.list", "customers.retrieve" >>,
         << "customers.retrieve", "billingPortal.sessions.create" >>,
         << "customers.list", "customers.retrieve", "billingPortal.sessions.create" >> }
  /\ (portal.calls # << >> /\ last = "billingPortal.sessions.create") =>
       /\ portal.retrieved
       /\ portal.sessionFor = portal.customerId
       /\ \E i \in 1 .. Len(customers) : customers[i].id = portal.sessionFor
       /\ portal.sessionFor =
            IF body.customer_id # "absent" THEN body.customer_id
            ELSE CustomersOf(body.customer_email)[1].id
  /\ portal.lookup = "empty" =>
       /\ PortalDone /\ portal.status = 404 /\ portal.calls = << "customers.list" >>
  /\ (PortalDone /\ portal.calls # << >> /\ last = "customers.retrieve") =>
       /\ portal.status = 404 /\ ~ portal.retrieved /\ portal.url = NoValue
  /\ (portal.calls # << >> /\ portal.calls[1] = "customers.list") <=>
       ( /\ PortalIsPost /\ body.customer_id = "absent"
         /\ body.customer_email # "absent" )
  /\ portal.url # NoValue => (portal.retrieved /\ portal.status = 200)

\* A request with an identifier the vendor does not hold and the email of a
\* customer it does hold was answered 404 without a lookup by email.
C20_Witness ==
  /\ PortalDone /\ PortalIsPost
  /\ PortalReq.body.customer_id = "cus_9"
  /\ PortalReq.body.customer_email = "ann@example.com"
  /\ VendorHolds("cus_0", "ann@example.com")
  /\ portal.status = 404 /\ portal.calls = << "customers.retrieve" >>

====
